---- MODULE Spec2Model ----
(***************************************************************************)
(* FProcMeshSection (ProcMeshData.h): one section of a procedural mesh,    *)
(* its vertex buffer, index buffer and local bounding box, together with   *)
(* the field-by-field codec (SerializeMesh / DeserializeMesh) and the      *)
(* bulk decoder (DeserializeMeshFast).                                     *)
(*                                                                         *)
(* A float is modelled by an integer: the archives copy a scalar's bytes   *)
(* verbatim, so a stream is the sequence of 4-byte scalars written to it.  *)
(* FVector is a triple <<X, Y, Z>>; FBox is [Min, Max, IsValid].           *)
(***************************************************************************)
EXTENDS Integers, Sequences, FiniteSets, TLC

VARIABLES
    sec,        \* the FProcMeshSection: [ProcVertexBuffer, ProcIndexBuffer, SectionLocalBox]
    ar,         \* the FBufferArchive after the last call, when that was SerializeMesh
    arIn,       \* what that archive held before the call
    rd,         \* the stream handed to the last call, when that was a decoder
    pre,        \* the section as it was before the last call, when that was SerializeMesh, DeserializeMesh or Reset
    lastOp,     \* the member function that ran last
    wasFresh,   \* TRUE when the section was as freshly constructed before the last call
    onlyAdds,   \* TRUE while sec has seen only AddVertex / index appends since construction or Reset
    error       \* the error the last decoder call surfaced to its caller

vars == <<sec, ar, arIn, rd, pre, lastOp, wasFresh, onlyAdds, error>>

-----------------------------------------------------------------------------
(* Bounds of the model *)

MaxVerts == 2       \* most vertex records a section holds
MaxIdx == 1         \* most indices a section holds

(* FProcMeshVertex values the builder inserts.  Every field of a record   *)
(* differs from its neighbours, so a swapped field order shows.           *)
MkVertex(px, py, pz, nx, ny, nz, m) ==
    [PositionX |-> px, PositionY |-> py, PositionZ |-> pz,
     NormalX |-> nx, NormalY |-> ny, NormalZ |-> nz, MatIdx |-> m]

Vertices ==
    { MkVertex(1, 2, 3, 0, 0, 1, 4),
      MkVertex(2, 1, -1, 0, 1, 0, 5) }

IndexValues == {0, 1}

(* Values an uninitialised local can hold when a read past the end of the *)
(* stream leaves it untouched.                                            *)
GarbageCounts == {-1, 0, 1}
GarbageWords == {-1, 0}

(* A persisted box that is not the bound of any buildable section. *)
WrongMin == <<-7, -7, -7>>
WrongMax == <<9, 9, 9>>

-----------------------------------------------------------------------------
(* FVector / FBox (engine types used by lines 59-74 and 190-191) *)

Min2(a, b) == IF a < b THEN a ELSE b
Max2(a, b) == IF a > b THEN a ELSE b

\* FBox(EForceInit::ForceInitToZero)
BoxForceInitToZero == [Min |-> <<0, 0, 0>>, Max |-> <<0, 0, 0>>, IsValid |-> 0]

\* FBox::Init()
BoxInit == [Min |-> <<0, 0, 0>>, Max |-> <<0, 0, 0>>, IsValid |-> 0]

\* FBox(const FVector& InMin, const FVector& InMax)
BoxFromMinMax(InMin, InMax) == [Min |-> InMin, Max |-> InMax, IsValid |-> 1]

\* FBox::operator+=(const FVector& Other)
BoxAddPoint(Box, Other) ==
    IF Box.IsValid = 1
    THEN [Min |-> <<Min2(Box.Min[1], Other[1]), Min2(Box.Min[2], Other[2]), Min2(Box.Min[3], Other[3])>>,
          Max |-> <<Max2(Box.Max[1], Other[1]), Max2(Box.Max[2], Other[2]), Max2(Box.Max[3], Other[3])>>,
          IsValid |-> 1]
    ELSE [Min |-> Other, Max |-> Other, IsValid |-> 1]

-----------------------------------------------------------------------------
(* FProcMeshSection *)

\* FProcMeshSection(): both arrays empty, SectionLocalBox(ForceInitToZero)
FreshSection ==
    [ProcVertexBuffer |-> <<>>, ProcIndexBuffer |-> <<>>, SectionLocalBox |-> BoxForceInitToZero]

\* Reset without SectionLocalBox.Init()
Reset_KeepsBox(s) ==
    [ProcVertexBuffer |-> <<>>, ProcIndexBuffer |-> <<>>, SectionLocalBox |-> s.SectionLocalBox]

\* Reset()
Reset(s) ==
    [ProcVertexBuffer |-> <<>>, ProcIndexBuffer |-> <<>>, SectionLocalBox |-> BoxInit]

\* AddVertex with Pos built from PositionX, PositionY, PositionY
AddVertex_PosTypo(s, Vertex) ==
    [s EXCEPT !.ProcVertexBuffer = Append(@, Vertex),
              !.SectionLocalBox =
                  BoxAddPoint(@, <<Vertex.PositionX, Vertex.PositionY, Vertex.PositionY>>)]

\* AddVertex(Vertex)
AddVertex(s, Vertex) ==
    [s EXCEPT !.ProcVertexBuffer = Append(@, Vertex),
              !.SectionLocalBox =
                  BoxAddPoint(@, <<Vertex.PositionX, Vertex.PositionY, Vertex.PositionZ>>)]

\* ProcIndexBuffer.Add(Index)
AddIndex(s, Index) == [s EXCEPT !.ProcIndexBuffer = Append(@, Index)]

-----------------------------------------------------------------------------
(* SerializeMesh *)

\* the normal written before the position
VertexWords_NormalFirst(Vertex) ==
    <<Vertex.NormalX, Vertex.NormalY, Vertex.NormalZ,
      Vertex.PositionX, Vertex.PositionY, Vertex.PositionZ, Vertex.MatIdx>>

\* the seven scalars of one vertex, in the order lines 98-116 write them
VertexWords(Vertex) ==
    <<Vertex.PositionX, Vertex.PositionY, Vertex.PositionZ,
      Vertex.NormalX, Vertex.NormalY, Vertex.NormalZ, Vertex.MatIdx>>

RECURSIVE SerializeVertices(_, _)
SerializeVertices(Buffer, BinaryData) ==
    IF Buffer = <<>> THEN BinaryData
    ELSE SerializeVertices(Tail(Buffer), BinaryData \o VertexWords(Head(Buffer)))

\* SerializeMesh writing the box in the order its locals are declared: max, then min
SerializeMesh_MaxFirst(s, BinaryData) ==
    LET VertexNum == Len(s.ProcVertexBuffer)
        Box == s.SectionLocalBox
        IndexNum == Len(s.ProcIndexBuffer)
        head == BinaryData \o <<VertexNum>>
                     \o <<Box.Max[1], Box.Max[2], Box.Max[3]>>
                     \o <<Box.Min[1], Box.Min[2], Box.Min[3]>>
    IN  SerializeVertices(s.ProcVertexBuffer, head) \o <<IndexNum>> \o s.ProcIndexBuffer

\* SerializeMesh(BinaryData) const: the archive after the call
SerializeMesh(s, BinaryData) ==
    LET VertexNum == Len(s.ProcVertexBuffer)
        Box == s.SectionLocalBox
        IndexNum == Len(s.ProcIndexBuffer)
        head == BinaryData \o <<VertexNum>>
                     \o <<Box.Min[1], Box.Min[2], Box.Min[3]>>
                     \o <<Box.Max[1], Box.Max[2], Box.Max[3]>>
    IN  SerializeVertices(s.ProcVertexBuffer, head) \o <<IndexNum>> \o s.ProcIndexBuffer

-----------------------------------------------------------------------------
(* DeserializeMesh *)

\* BinaryData << x on an FMemoryReader: the scalar at the cursor, or, past
\* the end of the data, x left as it was (uninitialised: g)
ReadWord(BinaryData, pos, g) == IF pos <= Len(BinaryData) THEN BinaryData[pos] ELSE g

\* lines 146-160: the loop body for Idx .. VertexNum-1, cursor at pos
RECURSIVE ReadVertices(_, _, _, _, _, _)
ReadVertices(s, BinaryData, pos, Idx, VertexNum, gw) ==
    IF Idx < VertexNum
    THEN LET Vertex == MkVertex(ReadWord(BinaryData, pos, gw),
                                ReadWord(BinaryData, pos + 1, gw),
                                ReadWord(BinaryData, pos + 2, gw),
                                ReadWord(BinaryData, pos + 3, gw),
                                ReadWord(BinaryData, pos + 4, gw),
                                ReadWord(BinaryData, pos + 5, gw),
                                ReadWord(BinaryData, pos + 6, gw))
         IN  ReadVertices(AddVertex(s, Vertex), BinaryData, pos + 7, Idx + 1, VertexNum, gw)
    ELSE [section |-> s, pos |-> pos]

\* lines 165-169
RECURSIVE ReadIndices(_, _, _, _, _, _)
ReadIndices(s, BinaryData, pos, Idx, IndexNum, gw) ==
    IF Idx < IndexNum
    THEN ReadIndices(AddIndex(s, ReadWord(BinaryData, pos, gw)),
                     BinaryData, pos + 1, Idx + 1, IndexNum, gw)
    ELSE s

\* DeserializeMesh installing the persisted box after replaying the vertices
DeserializeMesh_TrustsBox(s, BinaryData, gc, gw) ==
    LET VertexNum == ReadWord(BinaryData, 1, gc)
        afterVertices == ReadVertices(s, BinaryData, 8, 0, VertexNum, gw)
        IndexNum == ReadWord(BinaryData, afterVertices.pos, gc)
        Box == BoxFromMinMax(
                   <<ReadWord(BinaryData, 2, gw), ReadWord(BinaryData, 3, gw), ReadWord(BinaryData, 4, gw)>>,
                   <<ReadWord(BinaryData, 5, gw), ReadWord(BinaryData, 6, gw), ReadWord(BinaryData, 7, gw)>>)
    IN  ReadIndices([afterVertices.section EXCEPT !.SectionLocalBox = Box],
                    BinaryData, afterVertices.pos + 1, 0, IndexNum, gw)

\* DeserializeMesh calling Reset() before it reads
DeserializeMesh_ClearsFirst(s, BinaryData, gc, gw) ==
    LET VertexNum == ReadWord(BinaryData, 1, gc)
        afterVertices == ReadVertices(Reset(s), BinaryData, 8, 0, VertexNum, gw)
        IndexNum == ReadWord(BinaryData, afterVertices.pos, gc)
    IN  ReadIndices(afterVertices.section, BinaryData, afterVertices.pos + 1, 0, IndexNum, gw)

\* DeserializeMesh(BinaryData): the section after the call; gc and gw are
\* the contents of the uninitialised count and field locals
DeserializeMesh(s, BinaryData, gc, gw) ==
    LET VertexNum == ReadWord(BinaryData, 1, gc)
        \* MinX..MaxZ: six scalars read at 2..7 and not used
        afterVertices == ReadVertices(s, BinaryData, 8, 0, VertexNum, gw)
        IndexNum == ReadWord(BinaryData, afterVertices.pos, gc)
    IN  ReadIndices(afterVertices.section, BinaryData, afterVertices.pos + 1, 0, IndexNum, gw)

-----------------------------------------------------------------------------
(* DeserializeMeshFast *)

\* FastUnsafeDeserializer::readObj(x): the scalar at the cursor
FastReadObj(Data, pos) == Data[pos]

\* FastUnsafeDeserializer::read(ptr, n) for 4-byte elements: n scalars copied in bulk
FastRead(Data, pos, n) == SubSeq(Data, pos, pos + n - 1)

\* the 28 bytes of one FProcMeshVertex (lines 35-45) taken as the record
VertexFromWords(w) == MkVertex(w[1], w[2], w[3], w[4], w[5], w[6], w[7])

\* DeserializeMeshFast(Deserializer): the section after the call
DeserializeMeshFast(s, Data) ==
    LET VertexNum == FastReadObj(Data, 1)
        Min == FastRead(Data, 2, 3)
        Max == FastRead(Data, 5, 3)
        raw == FastRead(Data, 8, 7 * VertexNum)
        Buffer == [k \in 1..VertexNum |-> VertexFromWords(SubSeq(raw, 7 * (k - 1) + 1, 7 * k))]
        IndexNum == FastReadObj(Data, 8 + 7 * VertexNum)
        Indices == FastRead(Data, 9 + 7 * VertexNum, IndexNum)
        Box == BoxFromMinMax(<<Min[1], Min[2], Min[3]>>, <<Max[1], Max[2], Max[3]>>)
    IN  [ProcVertexBuffer |-> Buffer, ProcIndexBuffer |-> Indices, SectionLocalBox |-> Box]

-----------------------------------------------------------------------------
(* Streams handed to the decoders *)

\* the stream holds every scalar its two counts call for, and no count is negative
WellFormed(Data) ==
    /\ Len(Data) >= 8
    /\ Data[1] >= 0
    /\ Len(Data) >= 8 + 7 * Data[1]
    /\ Data[8 + 7 * Data[1]] >= 0
    /\ Len(Data) >= 8 + 7 * Data[1] + Data[8 + 7 * Data[1]]

\* the archive with its six box scalars overwritten
WithWrongBox(Data) ==
    [i \in 1..Len(Data) |->
        IF i \in 2..4 THEN WrongMin[i - 1]
        ELSE IF i \in 5..7 THEN WrongMax[i - 4]
        ELSE Data[i]]

\* the archive with its vertex count, or its index count, overwritten by -1
WithNegativeVertexNum(Data) == [Data EXCEPT ![1] = -1]
WithNegativeIndexNum(Data) == [Data EXCEPT ![8 + 7 * Data[1]] = -1]

\* DeserializeMesh finds under the reader every scalar it reads: the two
\* counts, the box, and the records and indices its loops run over
Complete(Data) ==
    /\ Len(Data) >= 8
    /\ LET IndexPos == 8 + 7 * Max2(Data[1], 0) IN
       /\ Len(Data) >= IndexPos
       /\ Len(Data) >= IndexPos + Max2(Data[IndexPos], 0)

\* the archive as written, or with a corrupted box
Persisted(Data) == {Data, WithWrongBox(Data)}

\* the archive cut short, or with a count overwritten
Damaged(Data) ==
    {SubSeq(Data, 1, n) : n \in 0..(Len(Data) - 1)}
        \cup {WithNegativeVertexNum(Data), WithNegativeIndexNum(Data)}

\* the sections AddVertex and index appends build from a fresh one
RECURSIVE Built(_)
Built(n) ==
    IF n = 0 THEN {FreshSection}
    ELSE LET P == Built(n - 1) IN
         P \cup {AddVertex(s, v) : s \in {x \in P : Len(x.ProcVertexBuffer) < MaxVerts}, v \in Vertices}
           \cup {AddIndex(s, i) : s \in {x \in P : Len(x.ProcIndexBuffer) < MaxIdx}, i \in IndexValues}

BuildableSections == Built(MaxVerts + MaxIdx)

\* the archives SerializeMesh writes for them
SerializedSections == {SerializeMesh(x, <<>>) : x \in BuildableSections}

\* what a caller may put under an FMemoryReader: a persisted archive, or a
\* damaged one
ReaderInputs == UNION {Persisted(a) : a \in SerializedSections}
DamagedInputs == UNION {Damaged(a) : a \in SerializedSections}

\* what a caller may put under a FastUnsafeDeserializer: enough bytes for
\* the two counts (the documented precondition of the unchecked path)
FastInputs == {Data \in ReaderInputs : WellFormed(Data)}

\* what an archive may hold before SerializeMesh appends to it
ArchiveContents == {<<>>, <<42>>}

-----------------------------------------------------------------------------
(* The state machine *)

Init ==
    /\ sec = FreshSection
    /\ ar = <<>>
    /\ arIn = <<>>
    /\ rd = <<>>
    /\ pre = FreshSection
    /\ lastOp = "Construct"
    /\ wasFresh = TRUE
    /\ onlyAdds = TRUE
    /\ error = "None"

NoCodec ==
    /\ ar' = <<>>
    /\ arIn' = <<>>
    /\ rd' = <<>>
    /\ pre' = FreshSection
    /\ error' = "None"

AddVertexOp ==
    \E Vertex \in Vertices :
        /\ Len(sec.ProcVertexBuffer) < MaxVerts
        /\ sec' = AddVertex(sec, Vertex)
        /\ lastOp' = "AddVertex"
        /\ wasFresh' = (sec = FreshSection)
        /\ NoCodec
        /\ UNCHANGED onlyAdds

AddIndexOp ==
    \E Index \in IndexValues :
        /\ Len(sec.ProcIndexBuffer) < MaxIdx
        /\ sec' = AddIndex(sec, Index)
        /\ lastOp' = "AddIndex"
        /\ wasFresh' = (sec = FreshSection)
        /\ NoCodec
        /\ UNCHANGED onlyAdds

ResetOp ==
    /\ sec' = Reset(sec)
    /\ onlyAdds' = TRUE
    /\ lastOp' = "Reset"
    /\ wasFresh' = (sec = FreshSection)
    /\ pre' = sec
    /\ ar' = <<>>
    /\ arIn' = <<>>
    /\ rd' = <<>>
    /\ error' = "None"

SerializeMeshOp ==
    \E BinaryData \in ArchiveContents :
        /\ ar' = SerializeMesh(sec, BinaryData)
        /\ arIn' = BinaryData
        /\ pre' = sec
        /\ rd' = <<>>
        /\ error' = "None"
        /\ lastOp' = "SerializeMesh"
        /\ wasFresh' = (sec = FreshSection)
        /\ UNCHANGED <<sec, onlyAdds>>

\* one call of DeserializeMesh on the section
DeserializeMeshCall(BinaryData, gc, gw) ==
    LET after == DeserializeMesh(sec, BinaryData, gc, gw) IN
    /\ Len(after.ProcVertexBuffer) <= MaxVerts
    /\ Len(after.ProcIndexBuffer) <= MaxIdx
    /\ sec' = after
    /\ rd' = BinaryData
    /\ pre' = sec
    /\ error' = "None"      \* void, no throw, the reader's error flag is never looked at
    /\ onlyAdds' = FALSE
    /\ lastOp' = "DeserializeMesh"
    /\ wasFresh' = (sec = FreshSection)
    /\ ar' = <<>>
    /\ arIn' = <<>>

DeserializeMeshOp ==
    \E BinaryData \in ReaderInputs : DeserializeMeshCall(BinaryData, 0, 0)

DeserializeMeshFastOp ==
    \E Data \in FastInputs :
        /\ sec' = DeserializeMeshFast(sec, Data)
        /\ rd' = Data
        /\ pre' = FreshSection
        /\ error' = "None"
        /\ onlyAdds' = FALSE
        /\ lastOp' = "DeserializeMeshFast"
        /\ wasFresh' = (sec = FreshSection)
        /\ ar' = <<>>
        /\ arIn' = <<>>

Next ==
    \/ AddVertexOp
    \/ AddIndexOp
    \/ ResetOp
    \/ SerializeMeshOp
    \/ DeserializeMeshOp
    \/ DeserializeMeshFastOp

Spec == Init /\ [][Next]_vars

-----------------------------------------------------------------------------
(* DeserializeMesh on damaged streams, applied to every buildable section *)

InitDamaged ==
    /\ sec \in BuildableSections
    /\ ar = <<>>
    /\ arIn = <<>>
    /\ rd = <<>>
    /\ pre = FreshSection
    /\ lastOp = "Built"
    /\ wasFresh = TRUE
    /\ onlyAdds = TRUE
    /\ error = "None"

DeserializeDamagedOp ==
    \E BinaryData \in DamagedInputs, gc \in GarbageCounts, gw \in GarbageWords :
        /\ lastOp = "Built"
        /\ DeserializeMeshCall(BinaryData, gc, gw)

NextDamaged == DeserializeDamagedOp

SpecDamaged == InitDamaged /\ [][NextDamaged]_vars

-----------------------------------------------------------------------------
(* What the properties speak of: the bound of a set of positions, and the  *)
(* fields of a stream by their place in the wire format                    *)

MinOf(S) == CHOOSE m \in S : \A x \in S : m <= x
MaxOf(S) == CHOOSE m \in S : \A x \in S : m >= x

Positions(Buffer) ==
    {<<Buffer[k].PositionX, Buffer[k].PositionY, Buffer[k].PositionZ>> : k \in 1..Len(Buffer)}

LowCorner(P) == <<MinOf({p[1] : p \in P}), MinOf({p[2] : p \in P}), MinOf({p[3] : p \in P})>>
HighCorner(P) == <<MaxOf({p[1] : p \in P}), MaxOf({p[2] : p \in P}), MaxOf({p[3] : p \in P})>>

\* the box that holds exactly the points of P: empty when P is
TightBox(P) ==
    IF P = {} THEN [Min |-> <<0, 0, 0>>, Max |-> <<0, 0, 0>>, IsValid |-> 0]
    ELSE [Min |-> LowCorner(P), Max |-> HighCorner(P), IsValid |-> 1]

\* the box B grown to hold the points of P as well
GrownBox(B, P) ==
    IF P = {} THEN B
    ELSE IF B.IsValid = 1 THEN TightBox(P \cup {B.Min, B.Max})
    ELSE TightBox(P)

StreamVertexNum(Data) == Max2(Data[1], 0)
StreamVertices(Data) ==
    [k \in 1..StreamVertexNum(Data) |->
        MkVertex(Data[7 * k + 1], Data[7 * k + 2], Data[7 * k + 3],
                 Data[7 * k + 4], Data[7 * k + 5], Data[7 * k + 6], Data[7 * k + 7])]
StreamIndexNum(Data) == Max2(Data[8 + 7 * StreamVertexNum(Data)], 0)
StreamIndices(Data) ==
    [j \in 1..StreamIndexNum(Data) |-> Data[8 + 7 * StreamVertexNum(Data) + j]]
StreamMin(Data) == <<Data[2], Data[3], Data[4]>>
StreamMax(Data) == <<Data[5], Data[6], Data[7]>>

-----------------------------------------------------------------------------
(* C1: while a section has seen only AddVertex calls and index appends     *)
(* since its construction or its last Reset, and holds at least one        *)
(* vertex, SectionLocalBox.Min and .Max are the component-wise minimum and *)
(* maximum of exactly the inserted positions; the origin is not part of    *)
(* the bound unless it was inserted.                                       *)
C1_BoxIsTightBound ==
    (onlyAdds /\ Len(sec.ProcVertexBuffer) >= 1) =>
        /\ sec.SectionLocalBox.Min = LowCorner(Positions(sec.ProcVertexBuffer))
        /\ sec.SectionLocalBox.Max = HighCorner(Positions(sec.ProcVertexBuffer))
        /\ sec.SectionLocalBox.IsValid = 1

\* two different positions inserted, none the origin, and the box excludes the origin
C1_Witness ==
    /\ onlyAdds
    /\ lastOp = "AddVertex"
    /\ Len(sec.ProcVertexBuffer) = 2
    /\ sec.ProcVertexBuffer[1] # sec.ProcVertexBuffer[2]
    /\ <<0, 0, 0>> \notin Positions(sec.ProcVertexBuffer)
    /\ sec.SectionLocalBox.Min[1] > 0

C7_ResetIsFresh ==
    lastOp = "Reset" =>
        /\ sec = FreshSection
        /\ \A v \in Vertices :
               SerializeMesh(AddVertex(sec, v), <<>>) = SerializeMesh(AddVertex(FreshSection, v), <<>>)

\* Reset of a section that DeserializeMeshFast filled, box trusted from the stream
C7_Witness ==
    /\ lastOp = "Reset"
    /\ Len(pre.ProcVertexBuffer) = 2
    /\ Len(pre.ProcIndexBuffer) >= 1
    /\ pre.SectionLocalBox = BoxFromMinMax(WrongMin, WrongMax)

C4_TruncatedInputFails ==
    (lastOp = "DeserializeMesh" /\ ~Complete(rd)) =>
        /\ error = "TruncatedInput"
        /\ sec = pre

(* C5: DeserializeMesh of a stream whose vertex count or index count is    *)
(* negative fails with InvalidCount at once; a negative vertex count is    *)
(* not taken for zero with the fields after it read on.                    *)
C5_NegativeCountFails ==
    (lastOp = "DeserializeMesh" /\ Complete(rd)
        /\ (rd[1] < 0 \/ rd[8 + 7 * StreamVertexNum(rd)] < 0)) =>
        /\ error = "InvalidCount"
        /\ rd[1] < 0 => sec = pre

(* C6: DeserializeMesh refuses a stream with an index outside              *)
(* [0, vertexCount): after every decode into an empty section that         *)
(* reported no error, each entry of ProcIndexBuffer is >= 0 and            *)
(* < ProcVertexBuffer.Num().                                               *)
C6_IndicesInRange ==
    (lastOp = "DeserializeMesh" /\ pre = FreshSection /\ error = "None") =>
        \A j \in 1..Len(sec.ProcIndexBuffer) :
            /\ sec.ProcIndexBuffer[j] >= 0
            /\ sec.ProcIndexBuffer[j] < Len(sec.ProcVertexBuffer)

(* C8: on a stream SerializeMesh wrote for a section built by AddVertex    *)
(* and index appends, the empty section included, DeserializeMeshFast and  *)
(* DeserializeMesh into a fresh section give equal vertex buffers, index   *)
(* buffers and boxes, empty or not alike, so that a following AddVertex    *)
(* gives the same box on both.                                             *)
C8_FastEqualsSafe ==
    (lastOp = "DeserializeMeshFast" /\ wasFresh /\ rd \in SerializedSections) =>
        LET safe == DeserializeMesh(FreshSection, rd, 0, 0) IN
        /\ sec.ProcVertexBuffer = safe.ProcVertexBuffer
        /\ sec.ProcIndexBuffer = safe.ProcIndexBuffer
        /\ sec.SectionLocalBox = safe.SectionLocalBox
        /\ \A v \in Vertices : AddVertex(sec, v).SectionLocalBox = AddVertex(safe, v).SectionLocalBox

(* C9: on a well-formed stream whose persisted min/max are not the tight   *)
(* bound of its vertex records, DeserializeMeshFast leaves SectionLocalBox *)
(* with exactly the six persisted values, and DeserializeMesh into an      *)
(* empty section leaves it the tight bound of the decoded vertices.        *)
C9_BoxDivergence ==
    (lastOp \in {"DeserializeMesh", "DeserializeMeshFast"} /\ WellFormed(rd)
        /\ <<StreamMin(rd), StreamMax(rd)>> #
               <<TightBox(Positions(StreamVertices(rd))).Min, TightBox(Positions(StreamVertices(rd))).Max>>) =>
        /\ lastOp = "DeserializeMeshFast" =>
               /\ sec.SectionLocalBox.Min = StreamMin(rd)
               /\ sec.SectionLocalBox.Max = StreamMax(rd)
        /\ (lastOp = "DeserializeMesh" /\ pre = FreshSection) =>
               /\ sec.ProcVertexBuffer = StreamVertices(rd)
               /\ sec.SectionLocalBox = TightBox(Positions(StreamVertices(rd)))

\* the fast decoder reproduced a wrong box that the safe decoder would have replaced
C9_Witness ==
    /\ lastOp = "DeserializeMeshFast"
    /\ Len(sec.ProcVertexBuffer) = 2
    /\ sec.SectionLocalBox.Min = WrongMin
    /\ sec.SectionLocalBox.Max = WrongMax
    /\ DeserializeMesh(FreshSection, rd, 0, 0).SectionLocalBox = TightBox(Positions(sec.ProcVertexBuffer))
    /\ TightBox(Positions(sec.ProcVertexBuffer)) # sec.SectionLocalBox

====
